---- MODULE Spec2Model ----
(***************************************************************************)
(* Session memory, agent turn and request pipeline of the APMC weather /   *)
(* agriculture chatbot (agent.py, agent_tools.py, utils.py,                *)
(* text_to_text_and_audio.py, audio_to_text_and_audio.py).                 *)
(*                                                                         *)
(* Text is a sequence of code points, so that f-string formatting and     *)
(* `+=` are sequence concatenation.  An optional float (lat, lon) is <<>>  *)
(* for None and <<x>> for the value x.                                     *)
(***************************************************************************)
EXTENDS Integers, Sequences, FiniteSets, TLC

VARIABLES session_stores, heap, turn, resp, last, appended, turnlog, pure, toolrun,
          requests

vars == <<session_stores, heap, turn, resp, last, appended, turnlog, pure, toolrun,
          requests>>

(***************************************************************************)
(* Bounds of the exploration.                                              *)
(***************************************************************************)
MaxMessages == 4
MaxAppends == 52
VaryLen == 4
MaxSteps == 4

(***************************************************************************)
(* Program constants.                                                      *)
(***************************************************************************)
max_iterations == 3
max_execution_time == 60
max_chat_history == 50

max_audio_duration_seconds == 20

Keys == {"s1", "s2"}
u1 == <<117, 49>>
u2 == <<117, 50>>
ManualTexts == {<<109, 49>>}
Answers == {<<97, 49>>}
None == <<>>
Floats == {None, <<21>>}

(***************************************************************************)
(* Strings of utils.py and agent_tools.py are sequences of code points.    *)
(***************************************************************************)
NL == 10
DOT == 46

IsSpace(c) == c \in {9, 10, 11, 12, 13, 32}

RECURSIVE LStrip(_)
LStrip(s) == IF s # <<>> /\ IsSpace(Head(s)) THEN LStrip(Tail(s)) ELSE s

RECURSIVE RStrip(_)
RStrip(s) == IF s # <<>> /\ IsSpace(s[Len(s)]) THEN RStrip(SubSeq(s, 1, Len(s) - 1)) ELSE s

\* str.strip()
Strip(s) == RStrip(LStrip(s))

RECURSIVE RStripDot(_)
\* str.rstrip(".")
RStripDot(s) == IF s # <<>> /\ s[Len(s)] = DOT THEN RStripDot(SubSeq(s, 1, Len(s) - 1)) ELSE s

\* str.lower() on the ASCII letters
Lower(s) == [i \in 1..Len(s) |-> IF s[i] >= 65 /\ s[i] <= 90 THEN s[i] + 32 ELSE s[i]]

\* str.endswith / str.startswith
EndsWith(s, t) == Len(s) >= Len(t) /\ SubSeq(s, Len(s) - Len(t) + 1, Len(s)) = t
StartsWith(s, t) == Len(s) >= Len(t) /\ SubSeq(s, 1, Len(t)) = t

RECURSIVE Split(_, _)
\* str.split(sep) for a one-character separator
Split(s, sep) ==
    IF \A i \in 1..Len(s) : s[i] # sep
    THEN <<s>>
    ELSE LET i == CHOOSE j \in 1..Len(s) : s[j] = sep /\ \A h \in 1..(j - 1) : s[h] # sep
         IN <<SubSeq(s, 1, i - 1)>> \o Split(SubSeq(s, i + 1, Len(s)), sep)

RECURSIVE Join(_, _)
\* sep.join(parts)
Join(parts, sep) ==
    IF parts = <<>> THEN <<>>
    ELSE IF Len(parts) = 1 THEN parts[1]
    ELSE parts[1] \o sep \o Join(Tail(parts), sep)

txtNone == <<78, 111, 110, 101>>
txtEn == <<101, 110>>
txtDashIN == <<45, 73, 78>>
enIN == txtEn \o txtDashIN
guIN == <<103, 117>> \o txtDashIN

\* results of the Python functions: a value, or a raised exception
Ok(v, calls) == [ok |-> TRUE, val |-> v, calls |-> calls]
Raise(calls) == [ok |-> FALSE, val |-> <<>>, calls |-> calls]
Call(p, arg, ok) == [p |-> p, arg |-> arg, ok |-> ok]

\* agent_tools.py:17-20
is_non_english_text(text) ==
    \E i \in 1..Len(text) :
        ~ \/ text[i] >= 0 /\ text[i] <= 127
          \/ text[i] >= 192 /\ text[i] <= 383
          \/ text[i] >= 256 /\ text[i] <= 591

\* utils.py:103-123
detect_text_language(text, e) ==
    IF e.detect.ok THEN Ok(e.detect.val, <<Call("detect", text, TRUE)>>)
    ELSE Raise(<<Call("detect", text, FALSE)>>)

\* language codes compared as they are given
format_language_code_asis(lang_code) == lang_code

\* utils.py:142-145
format_language_code(lang_code) ==
    IF lang_code # <<>> /\ ~EndsWith(lang_code, txtDashIN)
    THEN lang_code \o txtDashIN
    ELSE lang_code

max_chars == 1000

RECURSIVE ChunkLoop_dropping(_, _, _)
\* a loop that starts the next chunk empty, losing the paragraph that did not fit
ChunkLoop_dropping(paragraphs, chunks, current) ==
    IF paragraphs = <<>>
    THEN IF current # <<>> THEN Append(chunks, Strip(current)) ELSE chunks
    ELSE LET para == Head(paragraphs) IN
         IF Len(current) + Len(para) + 1 <= max_chars
         THEN ChunkLoop_dropping(Tail(paragraphs), chunks, current \o para \o <<NL>>)
         ELSE ChunkLoop_dropping(Tail(paragraphs), Append(chunks, Strip(current)), <<NL>>)

RECURSIVE ChunkLoop(_, _, _)
\* utils.py:160-167, the state <<chunks, current>> over the paragraphs
ChunkLoop(paragraphs, chunks, current) ==
    IF paragraphs = <<>>
    THEN IF current # <<>> THEN Append(chunks, Strip(current)) ELSE chunks
    ELSE LET para == Head(paragraphs) IN
         IF Len(current) + Len(para) + 1 <= max_chars
         THEN ChunkLoop(Tail(paragraphs), chunks, current \o para \o <<NL>>)
         ELSE ChunkLoop(Tail(paragraphs), Append(chunks, Strip(current)), para \o <<NL>>)

\* utils.py:154-167
Chunks(text) == ChunkLoop(Split(text, NL), <<>>, <<>>)

\* a provider that translates paragraph by paragraph: every character but
\* the separators is replaced, the separators stay where they are
Translated(chunk) ==
    [i \in 1..Len(chunk) |-> IF chunk[i] >= 97 /\ chunk[i] <= 122 THEN chunk[i] - 32
                             ELSE chunk[i]]
Each == [ok |-> TRUE, val |-> <<>>, each |-> TRUE]

\* utils.py:169-176: result.translated_text for one chunk; the provider
\* answers e.translate.val whatever the chunk, or translates the chunk itself
ProviderOutput(e, chunk) ==
    IF "each" \in DOMAIN e.translate THEN Translated(chunk) ELSE e.translate.val

\* utils.py:125-184
translate_text(text, target_language_code, source_language_code, e) ==
    IF format_language_code(source_language_code) = format_language_code(target_language_code)
    THEN Ok(text, <<>>)
    ELSE LET chunks == Chunks(text) IN
         IF chunks = <<>> THEN Ok(<<>>, <<>>)
         ELSE IF ~e.translate.ok
         THEN Raise(<<Call("translate", chunks[1], FALSE)>>)
         ELSE Ok(Join([i \in 1..Len(chunks) |-> Strip(ProviderOutput(e, chunks[i]))], <<NL>>),
                 [i \in 1..Len(chunks) |-> Call("translate", chunks[i], TRUE)])

\* utils.py:186-211; the result for an empty name is Python's None
translate_location_name_to_english(location_name, e) ==
    IF location_name = <<>> THEN [ok |-> TRUE, val |-> <<>>, calls |-> <<>>, none |-> TRUE]
    ELSE LET d == detect_text_language(location_name, e) IN
         IF ~d.ok THEN [ok |-> FALSE, val |-> <<>>, calls |-> d.calls, none |-> FALSE]
         ELSE LET t == translate_text(location_name, txtEn, d.val, e) IN
              IF ~t.ok THEN [ok |-> FALSE, val |-> <<>>, calls |-> d.calls \o t.calls, none |-> FALSE]
              ELSE [ok |-> TRUE, val |-> RStripDot(Strip(t.val)),
                    calls |-> d.calls \o t.calls, none |-> FALSE]

\* utils.py:215-239; val = <<>> with none = TRUE is Python's None
extract_location_from_text(text, e) ==
    IF ~e.llm.ok THEN [ok |-> FALSE, val |-> <<>>, calls |-> <<Call("llm", text, FALSE)>>, none |-> FALSE]
    ELSE LET location == Strip(e.llm.val) IN
         [ok |-> TRUE,
          val |-> IF Lower(location) = Lower(txtNone) THEN <<>> ELSE location,
          calls |-> <<Call("llm", text, TRUE)>>,
          none |-> Lower(location) = Lower(txtNone)]

\* utils.py:243-273 and :275-306: the provider's answer w is "good" (a full
\* record), "keyerr" (no "main" entry), "indexerr" (an empty "weather" list),
\* "none" (cod is not 200) or "fail" (the request raises)
fetch_weather_data_by_city(city_name, w) ==
    IF w = "fail" THEN [ok |-> FALSE, val |-> w, calls |-> <<Call("weather_city", city_name, FALSE)>>]
    ELSE [ok |-> TRUE, val |-> w, calls |-> <<Call("weather_city", city_name, TRUE)>>]

fetch_weather_data_by_coords(lat, lon, w) ==
    IF w = "fail" THEN [ok |-> FALSE, val |-> w, calls |-> <<Call("weather_coords", lat \o lon, FALSE)>>]
    ELSE [ok |-> TRUE, val |-> w, calls |-> <<Call("weather_coords", lat \o lon, TRUE)>>]

\* utils.py:308-339: the text, or the IndexError that `except KeyError` lets through
format_weather_data(weather_data) ==
    CASE weather_data = "none" -> [ok |-> TRUE, msg |-> "Weather data not available"]
      [] weather_data = "good" -> [ok |-> TRUE, msg |-> "Weather in"]
      [] weather_data = "keyerr" -> [ok |-> TRUE, msg |-> "Weather data format error: "]
      [] OTHER -> [ok |-> FALSE, msg |-> ""]

\* utils.py:344-377: "reqfail" is a requests.RequestException, answered with
\* the error record; "otherfail" is any other exception, which propagates
fetch_agriculture_prices(district, e) ==
    CASE e.prices = "otherfail" ->
            [ok |-> FALSE, val |-> "", calls |-> <<Call("prices", district, FALSE)>>]
      [] e.prices = "reqfail" ->
            [ok |-> TRUE, val |-> "error", calls |-> <<Call("prices", district, FALSE)>>]
      [] OTHER ->
            [ok |-> TRUE, val |-> e.prices, calls |-> <<Call("prices", district, TRUE)>>]

\* utils.py:379-422
format_agriculture_data(price_data) ==
    CASE price_data = "records" -> "Agriculture Prices in"
      [] price_data = "empty" -> "No agriculture price data found for"
      [] OTHER -> "Agriculture price data not available"

\* utils.py:557-573: the name, or None on any failure
get_district_from_coords(lat, lon, e) ==
    [ok |-> TRUE, val |-> IF e.district.ok THEN e.district.val ELSE <<>>,
     none |-> ~e.district.ok,
     calls |-> <<Call("district", lat \o lon, e.district.ok)>>]

\* what a tool hands back to the executor: a str, Python's None, or an exception
Text(msg, arg, calls) == [kind |-> "text", msg |-> msg, arg |-> arg, calls |-> calls]
PyNone(calls) == [kind |-> "none", msg |-> "", arg |-> <<>>, calls |-> calls]
Raised(calls) == [kind |-> "raise", msg |-> "", arg |-> <<>>, calls |-> calls]

\* agent_tools.py:34-37
WeatherByCoordsOrNotFound(lat, lon, e, calls) ==
    IF lat # None /\ lon # None
    THEN LET f == fetch_weather_data_by_coords(lat, lon, e.wcoords)
             m == format_weather_data(f.val)
         IN IF f.ok /\ m.ok THEN Text(m.msg, <<>>, calls \o f.calls)
            ELSE Text("Error fetching weather: ", <<>>, calls \o f.calls)
    ELSE Text("City not found and coordinates not provided.", <<>>, calls)

\* agent_tools.py:22-39
get_weather_with_auto_translation(city, lat, lon, e) ==
    IF city # <<>>
    THEN LET tr == IF is_non_english_text(city)
                   THEN translate_location_name_to_english(city, e)
                   ELSE [ok |-> TRUE, val |-> city, calls |-> <<>>, none |-> FALSE]
         IN IF ~tr.ok THEN Text("Error fetching weather: ", <<>>, tr.calls)
            ELSE LET f == fetch_weather_data_by_city(tr.val, e.wcity)
                     m == format_weather_data(f.val)
                 IN IF f.ok /\ m.ok THEN Text(m.msg, <<>>, tr.calls \o f.calls)
                    ELSE WeatherByCoordsOrNotFound(lat, lon, e, tr.calls \o f.calls)
    ELSE WeatherByCoordsOrNotFound(lat, lon, e, <<>>)

\* the tool without its try / except
get_weather_by_city_unguarded(city, e) ==
    LET f == fetch_weather_data_by_city(city, e.wcity)
        m == format_weather_data(f.val)
    IN IF f.ok /\ m.ok THEN Text(m.msg, <<>>, f.calls)
       ELSE Raised(f.calls)

\* agent_tools.py:41-48
get_weather_by_city(city, e) ==
    LET f == fetch_weather_data_by_city(city, e.wcity)
        m == format_weather_data(f.val)
    IN IF f.ok /\ m.ok THEN Text(m.msg, <<>>, f.calls)
       ELSE Text("Error fetching weather for {city}: ", city, f.calls)

\* agent_tools.py:50-57
get_weather_by_coordinates(lat, lon, e) ==
    LET f == fetch_weather_data_by_coords(lat, lon, e.wcoords)
        m == format_weather_data(f.val)
    IN IF f.ok /\ m.ok THEN Text(m.msg, <<>>, f.calls)
       ELSE Text("Error fetching weather: ", <<>>, f.calls)

\* a tool that uses the location in the language it was found in
NormalizeLocation_asis(location, e) ==
    [ok |-> TRUE, val |-> location, calls |-> <<>>, none |-> FALSE]

\* agent_tools.py:76-77, :96-97, :117-118
NormalizeLocation(location, e) ==
    IF is_non_english_text(location)
    THEN translate_location_name_to_english(location, e)
    ELSE [ok |-> TRUE, val |-> location, calls |-> <<>>, none |-> FALSE]

\* the price tool with another condition for turning to the coordinates:
\* fallback(found) for the location found in the text
PricesWithFallback(city_or_text, lat, lon, e, fallback(_)) ==
    LET ex == IF city_or_text # <<>> THEN extract_location_from_text(city_or_text, e)
              ELSE [ok |-> TRUE, val |-> <<>>, calls |-> <<>>, none |-> TRUE]
    IN IF ~ex.ok THEN Text("Error fetching agriculture prices: ", <<>>, ex.calls)
       ELSE LET loc == IF fallback(ex.val)
                       THEN get_district_from_coords(lat, lon, e)
                       ELSE [ok |-> TRUE, val |-> ex.val, none |-> ex.none, calls |-> <<>>]
                c1 == ex.calls \o loc.calls
            IN IF loc.val = <<>>
               THEN Text("Unable to detect your location from input or coordinates.", <<>>, c1)
               ELSE LET tr == NormalizeLocation(loc.val, e) IN
                    IF ~tr.ok THEN Text("Error fetching agriculture prices: ", <<>>, c1 \o tr.calls)
                    ELSE LET f == fetch_agriculture_prices(tr.val, e) IN
                         IF ~f.ok
                         THEN Text("Error fetching agriculture prices: ", <<>>, c1 \o tr.calls \o f.calls)
                         ELSE Text(format_agriculture_data(f.val), tr.val, c1 \o tr.calls \o f.calls)

\* a price tool that turns to the coordinates when either of them is given
get_agriculture_prices_either(city_or_text, lat, lon, e) ==
    LET fallback(found) == found = <<>> /\ (lat # None \/ lon # None)
    IN PricesWithFallback(city_or_text, lat, lon, e, fallback)

\* a price tool that turns to the coordinates only when it was given no text
get_agriculture_prices_textless(city_or_text, lat, lon, e) ==
    LET fallback(found) == city_or_text = <<>> /\ lat # None /\ lon # None
    IN PricesWithFallback(city_or_text, lat, lon, e, fallback)

\* agent_tools.py:59-82
get_agriculture_prices(city_or_text, lat, lon, e) ==
    LET ex == IF city_or_text # <<>> THEN extract_location_from_text(city_or_text, e)
              ELSE [ok |-> TRUE, val |-> <<>>, calls |-> <<>>, none |-> TRUE]
    IN IF ~ex.ok THEN Text("Error fetching agriculture prices: ", <<>>, ex.calls)
       ELSE LET loc == IF ex.val = <<>> /\ lat # None /\ lon # None
                       THEN get_district_from_coords(lat, lon, e)
                       ELSE [ok |-> TRUE, val |-> ex.val, none |-> ex.none, calls |-> <<>>]
                c1 == ex.calls \o loc.calls
            IN IF loc.val = <<>>
               THEN Text("Unable to detect your location from input or coordinates.", <<>>, c1)
               ELSE LET tr == NormalizeLocation(loc.val, e) IN
                    IF ~tr.ok THEN Text("Error fetching agriculture prices: ", <<>>, c1 \o tr.calls)
                    ELSE LET f == fetch_agriculture_prices(tr.val, e) IN
                         IF ~f.ok
                         THEN Text("Error fetching agriculture prices: ", <<>>, c1 \o tr.calls \o f.calls)
                         ELSE Text(format_agriculture_data(f.val), tr.val, c1 \o tr.calls \o f.calls)

\* agent_tools.py:84-103 and :105-124: the two advisory tools differ in their texts only
Advisory(city_or_text, e, errmsg) ==
    LET ex == extract_location_from_text(city_or_text, e) IN
    IF ~ex.ok THEN Text(errmsg, <<>>, ex.calls)
    ELSE IF ex.val = <<>> THEN Text("Unable to detect location.", <<>>, ex.calls)
    ELSE LET tr == NormalizeLocation(ex.val, e) IN
         IF ~tr.ok THEN Text(errmsg, <<>>, ex.calls \o tr.calls)
         ELSE IF ~e.llm2.ok
         THEN Text(errmsg, <<>>, ex.calls \o tr.calls \o <<Call("llm", tr.val, FALSE)>>)
         ELSE Text("llm", Strip(e.llm2.val), ex.calls \o tr.calls \o <<Call("llm", tr.val, TRUE)>>)

\* agent_tools.py:84-103
get_common_diseases(city_or_text, e) ==
    Advisory(city_or_text, e, "Error detecting seasonal diseases: ")

\* agent_tools.py:105-124
get_current_season_crop_suggestion(city_or_text, e) ==
    Advisory(city_or_text, e, "Error generating crop suggestion: ")

\* agent_tools.py:126-133
extract_location(user_input, e) ==
    LET ex == extract_location_from_text(user_input, e) IN
    IF ~ex.ok THEN Text("Error extracting location: ", <<>>, ex.calls)
    ELSE IF ex.val # <<>> THEN Text("location", ex.val, ex.calls)
    ELSE Text("None", <<>>, ex.calls)

\* agent_tools.py:135-141
translate_location_to_english(location, e) ==
    LET tr == translate_location_name_to_english(location, e) IN
    IF ~tr.ok THEN Text("Error translating location: ", <<>>, tr.calls)
    ELSE IF tr.none THEN PyNone(tr.calls)
    ELSE Text("location", tr.val, tr.calls)

\* a palette without the translation tool
tools_without_translation ==
    <<"get_weather_with_auto_translation", "get_weather_by_city",
      "get_weather_by_coordinates", "get_agriculture_prices",
      "get_common_diseases", "get_current_season_crop_suggestion",
      "extract_location">>

\* agent.py:28-37
tools == <<"get_weather_with_auto_translation", "get_weather_by_city",
           "get_weather_by_coordinates", "get_agriculture_prices",
           "get_common_diseases", "get_current_season_crop_suggestion",
           "extract_location", "translate_location_to_english">>

ToolNames == {tools[i] : i \in 1..Len(tools)}

\* the tool function behind a name of the palette, applied to the arguments
\* a = [text, lat, lon] the model supplied
RunTool(t, a, e) ==
    CASE t = "get_weather_with_auto_translation" ->
            get_weather_with_auto_translation(a.text, a.lat, a.lon, e)
      [] t = "get_weather_by_city" -> get_weather_by_city(a.text, e)
      [] t = "get_weather_by_coordinates" -> get_weather_by_coordinates(a.lat, a.lon, e)
      [] t = "get_agriculture_prices" -> get_agriculture_prices(a.text, a.lat, a.lon, e)
      [] t = "get_common_diseases" -> get_common_diseases(a.text, e)
      [] t = "get_current_season_crop_suggestion" ->
            get_current_season_crop_suggestion(a.text, e)
      [] t = "extract_location" -> extract_location(a.text, e)
      [] OTHER -> translate_location_to_english(a.text, e)

\* the inputs and collaborator answers the tools are explored with
nmSurat == <<83, 117>>
nmGujarati == <<2744, 2753>>
nmDotted == <<83, 117, 46, 32>>
Names == {<<>>, nmSurat, nmGujarati}
Val(v) == [ok |-> TRUE, val |-> v]
Fails == [ok |-> FALSE, val |-> <<>>]
WeatherAnswers == {"good", "keyerr", "indexerr", "none", "fail"}
DefaultEnv == [detect |-> Val(enIN), translate |-> Val(nmSurat), llm |-> Val(nmSurat),
               llm2 |-> Val(nmSurat), wcity |-> "good", wcoords |-> "good",
               prices |-> "records", district |-> Val(nmSurat)]
DetectAnswers == {Fails, Val(enIN), Val(guIN)}
TranslateAnswers == {Fails, Val(nmDotted)}
LlmAnswers == {Fails, Val(txtNone), Val(<<32>>), Val(nmSurat), Val(nmGujarati)}
DistrictAnswers == {Fails, Val(nmSurat), Val(nmGujarati)}

UsesText(t) == t # "get_weather_by_coordinates"
UsesCoords(t) == t \in {"get_weather_with_auto_translation", "get_weather_by_coordinates",
                        "get_agriculture_prices"}
UsesLlm(t) == t \in {"get_agriculture_prices", "get_common_diseases",
                     "get_current_season_crop_suggestion", "extract_location"}
UsesAdvice(t) == t \in {"get_common_diseases", "get_current_season_crop_suggestion"}
UsesTranslation(t) == t \notin {"get_weather_by_city", "get_weather_by_coordinates",
                                "extract_location"}

\* arguments a model may supply to tool t (fields the tool does not take are fixed)
ArgsFor(t) ==
    {[text |-> n, lat |-> la, lon |-> lo] :
        n \in IF UsesText(t) THEN Names ELSE {<<>>},
        la \in IF UsesCoords(t) THEN Floats ELSE {None},
        lo \in IF UsesCoords(t) THEN Floats ELSE {None}}

\* collaborator answers that tool t can observe (the others are fixed)
EnvFor(t) ==
    {[detect |-> d, translate |-> tr, llm |-> l, llm2 |-> l2, wcity |-> wc,
      wcoords |-> wo, prices |-> p, district |-> di] :
        d \in IF UsesTranslation(t) THEN DetectAnswers ELSE {DefaultEnv.detect},
        tr \in IF UsesTranslation(t) THEN TranslateAnswers ELSE {DefaultEnv.translate},
        l \in IF UsesLlm(t) THEN LlmAnswers ELSE {DefaultEnv.llm},
        l2 \in IF UsesAdvice(t) THEN {Fails, Val(nmSurat)} ELSE {DefaultEnv.llm2},
        wc \in IF t \in {"get_weather_with_auto_translation", "get_weather_by_city"}
               THEN WeatherAnswers ELSE {"good"},
        wo \in IF t \in {"get_weather_with_auto_translation", "get_weather_by_coordinates"}
               THEN WeatherAnswers ELSE {"good"},
        p \in IF t = "get_agriculture_prices"
              THEN {"records", "empty", "reqfail", "otherfail"} ELSE {"records"},
        di \in IF t = "get_agriculture_prices" THEN DistrictAnswers ELSE {DefaultEnv.district}}

\* some collaborator consulted during the call failed
Failed(out) == \E i \in 1..Len(out.calls) : ~out.calls[i].ok

HumanMessage(content) == [type |-> "human", content |-> content]
AIMessage(content) == [type |-> "ai", content |-> content]

RECURSIVE SumLen(_, _)
SumLen(h, n) == IF n = 0 THEN 0 ELSE Len(h[n]) + SumLen(h, n - 1)

\* number of messages held by all ChatMessageHistory objects
TotalMessages == SumLen(heap, Len(heap))

\* every key is handed the one ChatMessageHistory object made first
StoresAfterGet_aliased(session_id) ==
    IF session_id \notin DOMAIN session_stores
    THEN [k \in DOMAIN session_stores \cup {session_id} |->
              IF k = session_id THEN 1 ELSE session_stores[k]]
    ELSE session_stores

(***************************************************************************)
(* agent.py:92-98.  session_stores maps a key to a ChatMessageHistory      *)
(* object; heap[r] is the `messages` list of object r.  The operators      *)
(* return the store after the call and the object handed back.             *)
(***************************************************************************)
StoresAfterGet(session_id) ==
    IF session_id \notin DOMAIN session_stores
    THEN [k \in DOMAIN session_stores \cup {session_id} |->
              IF k = session_id THEN Len(heap) + 1 ELSE session_stores[k]]
    ELSE session_stores

\* a repeated get that starts the session afresh
HeapAfterGet_reset(session_id) ==
    IF session_id \notin DOMAIN session_stores
    THEN Append(heap, <<>>)
    ELSE [heap EXCEPT ![session_stores[session_id]] = <<>>]

\* a new session that starts from the messages of the latest one
HeapAfterGet_shared(session_id) ==
    IF session_id \notin DOMAIN session_stores
    THEN Append(heap, IF heap = <<>> THEN <<>> ELSE heap[Len(heap)])
    ELSE heap

HeapAfterGet(session_id) ==
    IF session_id \notin DOMAIN session_stores
    THEN Append(heap, <<>>)
    ELSE heap

RefAfterGet(session_id) == StoresAfterGet(session_id)[session_id]

\* what invoke_agent came to: it returned `output` (kind "ok") or raised
\* (kind "raise", error naming the call that failed)
NoRet == [kind |-> "none", output |-> <<>>, stopped |-> FALSE, error |-> ""]
Returned(output, stopped) == [kind |-> "ok", output |-> output, stopped |-> stopped, error |-> ""]
Failure(error) == [kind |-> "raise", output |-> <<>>, stopped |-> FALSE, error |-> error]

\* what a request brought: the text of a text request, the file name and
\* the duration in seconds of the upload of an audio request
NoUpload == [text |-> <<>>, filename |-> <<>>, duration |-> <<>>]

\* the outcome of the latest completed call
NoLast == [op |-> "none", key |-> "", known |-> FALSE, ref |-> 0, result |-> <<>>,
           ret |-> NoRet, input |-> <<>>, origin |-> "", request |-> NoUpload,
           dropped |-> 0]

\* a request handler has been entered with the request
Received(op, request) == [NoLast EXCEPT !.op = op, !.request = request]

Idle == [pc |-> "idle", origin |-> "", session_id |-> "", fresh |-> FALSE, hist |-> 0,
         user_text |-> <<>>, lat |-> None, lon |-> None, input |-> <<>>,
         chat_history |-> <<>>, iterations |-> 0, elapsed |-> 0, steps |-> <<>>]

NoResp == [status |-> 0, detail |-> "", text |-> <<>>, language |-> <<>>,
           audio |-> FALSE, session_id |-> ""]

NoRun == [tool |-> "", args |-> [text |-> <<>>, lat |-> None, lon |-> None],
          env |-> DefaultEnv, out |-> PyNone(<<>>)]

\* the requests the server has accepted, each with the state of its handler
RequestIds == {"r1", "r2"}
NoRequest == [pc |-> "none", session_id |-> "", input |-> <<>>, hist |-> 0,
              chat_history |-> <<>>, iterations |-> 0, overlapped |-> FALSE,
              answered |-> FALSE, output |-> <<>>, seq |-> 0]

Init ==
    /\ session_stores = [k \in {} |-> 0]
    /\ heap = <<>>
    /\ turn = Idle
    /\ resp = NoResp
    /\ last = NoLast
    /\ appended = [k \in Keys |-> <<>>]
    /\ turnlog = [k \in Keys |-> <<>>]
    /\ pure = [k \in Keys |-> TRUE]
    /\ toolrun = NoRun
    /\ requests = [r \in RequestIds |-> NoRequest]

\* agent.py:94-98, called on its own
get_session_history(session_id) ==
    /\ turn.pc = "idle"
    /\ session_stores' = StoresAfterGet(session_id)
    /\ heap' = HeapAfterGet(session_id)
    /\ last' = [NoLast EXCEPT !.op = "get_session_history", !.key = session_id,
                !.known = session_id \in DOMAIN session_stores,
                !.ref = RefAfterGet(session_id),
                !.result = HeapAfterGet(session_id)[RefAfterGet(session_id)]]
    /\ resp' = NoResp
    /\ UNCHANGED <<turn, appended, turnlog, pure, toolrun, requests>>

\* agent.py:145-149
get_conversation_history(session_id) ==
    /\ turn.pc = "idle"
    /\ last' = [NoLast EXCEPT !.op = "get_conversation_history", !.key = session_id,
                !.known = session_id \in DOMAIN session_stores,
                !.result = IF session_id \in DOMAIN session_stores
                           THEN heap[session_stores[session_id]]
                           ELSE <<>>]
    /\ resp' = NoResp
    /\ UNCHANGED <<session_stores, heap, turn, appended, turnlog, pure, toolrun, requests>>

\* a reset that empties the message list of every session
clear_session_history_all(session_id) ==
    /\ turn.pc = "idle"
    /\ heap' = IF session_id \in DOMAIN session_stores
               THEN [r \in DOMAIN heap |-> <<>>]
               ELSE heap
    /\ last' = [NoLast EXCEPT !.op = "clear_session_history", !.key = session_id,
                !.known = session_id \in DOMAIN session_stores,
                !.dropped = IF session_id \in DOMAIN session_stores
                            THEN Len(heap[session_stores[session_id]]) ELSE 0]
    /\ resp' = NoResp
    /\ appended' = IF session_id \in DOMAIN session_stores
                   THEN [k \in Keys |-> <<>>]
                   ELSE appended
    /\ turnlog' = IF session_id \in DOMAIN session_stores
                  THEN [k \in Keys |-> <<>>]
                  ELSE turnlog
    /\ pure' = IF session_id \in DOMAIN session_stores
               THEN [k \in Keys |-> TRUE]
               ELSE pure
    /\ UNCHANGED <<session_stores, turn, toolrun, requests>>

\* agent.py:152-155; ChatMessageHistory.clear() empties the messages list
clear_session_history(session_id) ==
    /\ turn.pc = "idle"
    /\ heap' = IF session_id \in DOMAIN session_stores
               THEN [heap EXCEPT ![session_stores[session_id]] = <<>>]
               ELSE heap
    /\ last' = [NoLast EXCEPT !.op = "clear_session_history", !.key = session_id,
                !.known = session_id \in DOMAIN session_stores,
                !.dropped = IF session_id \in DOMAIN session_stores
                            THEN Len(heap[session_stores[session_id]]) ELSE 0]
    /\ resp' = NoResp
    /\ appended' = IF session_id \in DOMAIN session_stores
                   THEN [appended EXCEPT ![session_id] = <<>>]
                   ELSE appended
    /\ turnlog' = IF session_id \in DOMAIN session_stores
                  THEN [turnlog EXCEPT ![session_id] = <<>>]
                  ELSE turnlog
    /\ pure' = IF session_id \in DOMAIN session_stores
               THEN [pure EXCEPT ![session_id] = TRUE]
               ELSE pure
    /\ UNCHANGED <<session_stores, turn, toolrun, requests>>

\* ChatMessageHistory.add_message, as called from agent.py:162 and :164, and
\* ChatMessageHistory.add_messages, as RunnableWithMessageHistory calls it
\* a history that puts the newest messages first
add_messages_front(messages, new) == new \o messages

\* a history that enforces max_chat_history by dropping the oldest messages
add_messages_capped(messages, new) ==
    LET all == messages \o new IN
    IF Len(all) > max_chat_history
    THEN SubSeq(all, Len(all) - max_chat_history + 1, Len(all))
    ELSE all

add_messages(messages, new) == messages \o new

\* agent.py:158-164
add_message_to_history(session_id, message, is_human) ==
    /\ turn.pc = "idle"
    /\ session_stores' = StoresAfterGet(session_id)
    /\ heap' = [HeapAfterGet(session_id) EXCEPT ![RefAfterGet(session_id)] =
                   add_messages(@, <<IF is_human THEN HumanMessage(message)
                                                  ELSE AIMessage(message)>>)]
    /\ last' = [NoLast EXCEPT !.op = "add_message_to_history", !.key = session_id,
                !.known = session_id \in DOMAIN session_stores,
                !.ref = RefAfterGet(session_id)]
    /\ resp' = NoResp
    /\ appended' = [appended EXCEPT ![session_id] =
                       Append(@, IF is_human THEN HumanMessage(message)
                                             ELSE AIMessage(message))]
    /\ pure' = [pure EXCEPT ![session_id] = FALSE]
    /\ UNCHANGED <<turn, turnlog, toolrun, requests>>

(***************************************************************************)
(* invoke_agent, agent.py:125-142, on the executor of agent.py:101-122.    *)
(***************************************************************************)
RECURSIVE Digits(_)
Digits(n) == IF n < 10 THEN <<48 + n>> ELSE Digits(n \div 10) \o <<48 + (n % 10)>>

\* f"{x}" of a float with an integral value
StrFloat(x) == Digits(x[1]) \o <<46, 48>>

\* an input text that leaves the coordinates out
enhanced_input_bare(input_text, lat, lon) == input_text

\* agent.py:132-134
enhanced_input(input_text, lat, lon) ==
    IF lat # None /\ lon # None
    THEN input_text \o <<32, 40, 108, 97, 116, 58, 32>> \o StrFloat(lat)
                    \o <<44, 32, 108, 111, 110, 58, 32>> \o StrFloat(lon) \o <<41>>
    ELSE input_text

\* agent.py:129 and :137-140: RunnableWithMessageHistory.invoke gets the
\* session's history object through get_session_history (agent.py:117) and
\* hands a copy of its messages to the executor as chat_history
StartTurn(origin, session_id, input_text, lat, lon, received) ==
    /\ session_stores' = StoresAfterGet(session_id)
    /\ heap' = HeapAfterGet(session_id)
    /\ turn' = [pc |-> "agent", origin |-> origin, session_id |-> session_id,
                fresh |-> session_id \notin DOMAIN session_stores,
                hist |-> RefAfterGet(session_id),
                user_text |-> input_text, lat |-> lat, lon |-> lon,
                input |-> enhanced_input(input_text, lat, lon),
                chat_history |-> HeapAfterGet(session_id)[RefAfterGet(session_id)],
                iterations |-> 0, elapsed |-> 0, steps |-> <<>>]
    /\ last' = received
    /\ resp' = NoResp
    /\ UNCHANGED <<appended, turnlog, pure, toolrun, requests>>

\* a direct call of invoke_agent, as test_memory.py:14-34 makes it
invoke_agent(session_id, input_text, lat, lon) ==
    /\ turn.pc = "idle"
    /\ StartTurn("direct", session_id, input_text, lat, lon, NoLast)

Error(status, detail, sid) ==
    [status |-> status, detail |-> detail, text |-> <<>>, language |-> <<>>,
     audio |-> FALSE, session_id |-> sid]

\* text_to_text_and_audio.py:58-60 and audio_to_text_and_audio.py:80-82:
\* the keys a request with query parameter sid can run under: sid, or else
\* a uuid4 string, which is a key the store has never seen
SessionIdsFor(sid) == IF sid # "" THEN {sid} ELSE Keys \ DOMAIN session_stores

\* text_to_text_and_audio.py:43-66, up to the call of invoke_agent
text_to_text_and_audio(text, sid, lat, lon) ==
    /\ turn.pc = "idle"
    /\ IF Strip(text) = <<>>
       THEN /\ resp' = Error(400, "Empty text provided", "")
            /\ last' = Received("text_to_text_and_audio", [NoUpload EXCEPT !.text = text])
            /\ UNCHANGED <<session_stores, heap, turn, appended, turnlog, pure, toolrun, requests>>
       ELSE \E session_id \in SessionIdsFor(sid) :
               StartTurn("text", session_id, Strip(text), lat, lon,
                         Received("text_to_text_and_audio", [NoUpload EXCEPT !.text = text]))

extMp3 == <<46, 109, 112, 51>>
extWav == <<46, 119, 97, 118>>
extM4a == <<46, 109, 52, 97>>

\* a validation that accepts every file it can decode
validate_audio_duration_decodable(duration) == duration # <<>>

\* utils.py:446-462: the duration in seconds, or <<>> when the file cannot be decoded
validate_audio_duration(duration) ==
    duration # <<>> /\ duration[1] <= max_audio_duration_seconds

\* audio_to_text_and_audio.py:38-87, up to the call of invoke_agent; stt is
\* the transcription (utils.py:23-44) or a failure
upload_audio(filename, duration, stt, sid, lat, lon) ==
    /\ turn.pc = "idle"
    /\ IF ~(EndsWith(filename, extMp3) \/ EndsWith(filename, extWav))
       THEN /\ resp' = Error(400, "Only .mp3 or .wav files are allowed", "")
            /\ last' = Received("upload_audio", [NoUpload EXCEPT !.filename = filename,
                                                                        !.duration = duration])
            /\ UNCHANGED <<session_stores, heap, turn, appended, turnlog, pure, toolrun, requests>>
       ELSE IF ~validate_audio_duration(duration)
       THEN /\ resp' = Error(400, "Audio duration exceeds 20 seconds. Please upload a shorter clip.", "")
            /\ last' = Received("upload_audio", [NoUpload EXCEPT !.filename = filename,
                                                                        !.duration = duration])
            /\ UNCHANGED <<session_stores, heap, turn, appended, turnlog, pure, toolrun, requests>>
       ELSE IF ~stt.ok
       THEN /\ resp' = Error(500, "Speech-to-text error: ", "")
            /\ last' = Received("upload_audio", [NoUpload EXCEPT !.filename = filename,
                                                                        !.duration = duration])
            /\ UNCHANGED <<session_stores, heap, turn, appended, turnlog, pure, toolrun, requests>>
       ELSE \E session_id \in SessionIdsFor(sid) :
               StartTurn("audio", session_id, stt.val, lat, lon,
                         Received("upload_audio", [NoUpload EXCEPT !.filename = filename,
                                                                   !.duration = duration]))

\* str.split("-")[0]
Subtag(lang) == Split(lang, 45)[1]

RECURSIVE FirstMatch(_, _)
\* text_to_text_and_audio.py:91-95: the first entry that starts with the prefix, or <<>>
FirstMatch(langs, prefix) ==
    IF langs = <<>> THEN <<>>
    ELSE IF StartsWith(Head(langs), prefix) THEN <<Head(langs)>>
    ELSE FirstMatch(Tail(langs), prefix)

\* text_to_text_and_audio.py:89-99
TargetLanguage(user_lang, langs) ==
    IF langs # <<>>
    THEN IF FirstMatch(langs, Subtag(user_lang)) # <<>>
         THEN FirstMatch(langs, Subtag(user_lang))[1]
         ELSE langs[1]
    ELSE user_lang

\* text_to_text_and_audio.py:76-125: the answer text and the language after
\* the detection / translation block; c = [du, da, tr] are the answers of
\* the two detections and of the translation provider
TextLanguageBlock(answer_text, langs, c) ==
    IF ~c.du.ok THEN [text |-> answer_text, lang |-> enIN]
    ELSE LET user_lang == TargetLanguage(c.du.val, langs) IN
         IF ~c.da.ok THEN [text |-> answer_text, lang |-> enIN]
         ELSE IF c.da.val # user_lang
         THEN LET t == translate_text(answer_text, user_lang, c.da.val,
                                      [DefaultEnv EXCEPT !.translate = c.tr])
              IN [text |-> IF t.ok THEN t.val ELSE answer_text, lang |-> user_lang]
         ELSE [text |-> answer_text, lang |-> user_lang]

\* audio_to_text_and_audio.py:97-112
AudioLanguageBlock(answer_text, c) ==
    IF ~c.du.ok THEN [text |-> answer_text, lang |-> enIN]
    ELSE IF c.du.val # enIN
    THEN LET t == translate_text(answer_text, c.du.val, enIN,
                                 [DefaultEnv EXCEPT !.translate = c.tr])
         IN IF t.ok THEN [text |-> t.val, lang |-> c.du.val]
            ELSE [text |-> answer_text, lang |-> enIN]
    ELSE [text |-> answer_text, lang |-> c.du.val]

\* a handler that answers a failed turn with an empty text
Respond_silent(origin, sid, ret, langs, c) ==
    IF origin = "direct" THEN NoResp
    ELSE LET b == IF origin = "text" THEN TextLanguageBlock(ret.output, langs, c)
                  ELSE AudioLanguageBlock(ret.output, c)
         IN IF ~c.tts THEN Error(500, "TTS error: ", "")
            ELSE [status |-> 200, detail |-> "", text |-> b.text,
                  language |-> b.lang, audio |-> TRUE, session_id |-> sid]

\* text_to_text_and_audio.py:67-151 and audio_to_text_and_audio.py:88-145:
\* the rest of the request handler once invoke_agent has returned or raised
Respond(origin, sid, ret, langs, c) ==
    IF origin = "direct" THEN NoResp
    ELSE IF ret.kind = "raise" THEN Error(500, "Agent error: ", "")
    ELSE LET b == IF origin = "text" THEN TextLanguageBlock(ret.output, langs, c)
                  ELSE AudioLanguageBlock(ret.output, c)
         IN IF ~c.tts THEN Error(500, "TTS error: ", "")
            ELSE [status |-> 200, detail |-> "", text |-> b.text,
                  language |-> b.lang, audio |-> TRUE, session_id |-> sid]

LangLists == {<<>>, <<guIN, enIN>>}
PipelineAnswers ==
    [du : {Fails, Val(guIN)}, da : {Fails, Val(enIN)},
     tr : {Fails, Val(<<120>>)}, tts : BOOLEAN]

StopMessage == <<65, 103, 101, 110, 116, 32, 115, 116, 111, 112, 112, 101, 100, 32,
                 100, 117, 101, 32, 116, 111, 32, 105, 116, 101, 114, 97, 116, 105,
                 111, 110, 32, 108, 105, 109, 105, 116, 32, 111, 114, 32, 116, 105,
                 109, 101, 32, 108, 105, 109, 105, 116, 46>>

\* a loop that allows one iteration too many
should_continue_late(iterations, elapsed) ==
    iterations <= max_iterations /\ elapsed < max_execution_time

\* a loop bounded by the clock only
should_continue_clock(iterations, elapsed) ==
    elapsed < max_execution_time

\* AgentExecutor._should_continue under agent.py:110-111
should_continue(iterations, elapsed) ==
    iterations < max_iterations /\ elapsed < max_execution_time

Min(a, b) == IF a < b THEN a ELSE b

\* the clock is followed up to the limit only
Durations == {0, 60}
Later(elapsed, d) == Min(elapsed + d, max_execution_time)

\* invoke_agent returns ret (agent.py:142): RunnableWithMessageHistory appends
\* the input and the output to the history object it fetched at the start;
\* then the request handler, if any, finishes
ReturnTurn(ret) ==
    /\ heap' = [heap EXCEPT ![turn.hist] =
                   add_messages(@, <<HumanMessage(turn.input), AIMessage(ret.output)>>)]
    /\ appended' = [appended EXCEPT ![turn.session_id] =
                       @ \o <<HumanMessage(turn.input), AIMessage(ret.output)>>]
    /\ turnlog' = [turnlog EXCEPT ![turn.session_id] =
                      Append(@, [user_text |-> turn.user_text, lat |-> turn.lat,
                                 lon |-> turn.lon, answer |-> ret.output])]
    /\ last' = [NoLast EXCEPT !.op = "invoke_agent", !.key = turn.session_id,
                !.known = ~turn.fresh, !.ref = turn.hist, !.ret = ret,
                !.input = turn.input, !.origin = turn.origin]
    /\ \E langs \in LangLists, c \in PipelineAnswers :
          resp' = Respond(turn.origin, turn.session_id, ret, langs, c)
    /\ turn' = Idle
    /\ UNCHANGED <<session_stores, pure, toolrun, requests>>

\* a failing turn that has stored the input before the model was called
RaiseTurn_appending(error) ==
    /\ heap' = [heap EXCEPT ![turn.hist] = add_messages(@, <<HumanMessage(turn.input)>>)]
    /\ last' = [NoLast EXCEPT !.op = "invoke_agent", !.key = turn.session_id,
                !.known = ~turn.fresh, !.ref = turn.hist,
                !.ret = Failure(error),
                !.input = turn.input, !.origin = turn.origin]
    /\ \E langs \in LangLists, c \in PipelineAnswers :
          resp' = Respond(turn.origin, turn.session_id, Failure(error), langs, c)
    /\ turn' = Idle
    /\ UNCHANGED <<session_stores, appended, turnlog, pure, toolrun, requests>>

\* invoke_agent raises: nothing is appended
RaiseTurn(error) ==
    /\ last' = [NoLast EXCEPT !.op = "invoke_agent", !.key = turn.session_id,
                !.known = ~turn.fresh, !.ref = turn.hist,
                !.ret = Failure(error),
                !.input = turn.input, !.origin = turn.origin]
    /\ \E langs \in LangLists, c \in PipelineAnswers :
          resp' = Respond(turn.origin, turn.session_id, Failure(error), langs, c)
    /\ turn' = Idle
    /\ UNCHANGED <<session_stores, heap, appended, turnlog, pure, toolrun, requests>>

\* the loop of AgentExecutor ends on a limit of agent.py:110-111: with the
\* default early_stopping_method the executor returns the stop message as output
AgentStop ==
    /\ turn.pc = "agent"
    /\ ~should_continue(turn.iterations, turn.elapsed)
    /\ ReturnTurn(Returned(StopMessage, TRUE))

\* the model answers with a final text
AgentFinish(answer) ==
    /\ turn.pc = "agent"
    /\ should_continue(turn.iterations, turn.elapsed)
    /\ ReturnTurn(Returned(answer, FALSE))

\* the model call of the decision step fails
AgentModelError ==
    /\ turn.pc = "agent"
    /\ should_continue(turn.iterations, turn.elapsed)
    /\ RaiseTurn("model")

\* the kinds of result each tool of the palette can hand back
ToolKinds == [t \in ToolNames |-> {RunTool(t, a, e).kind : a \in ArgsFor(t), e \in EnvFor(t)}]

\* AgentExecutor's name_to_tool_map lookup: the tool run for the name the
\* model asked for; a name outside the palette runs the stand-in InvalidTool
Dispatch(name) == IF name \in ToolNames THEN name ELSE "invalid_tool"

\* the model asks for the tool called name, which runs and takes d seconds;
\* kind is what the tool hands back
AgentToolStep(name, kind, d) ==
    /\ turn.pc = "agent"
    /\ should_continue(turn.iterations, turn.elapsed)
    /\ Len(turn.steps) < MaxSteps
    /\ IF kind = "raise"
       THEN RaiseTurn("tool")
       ELSE /\ turn' = [turn EXCEPT !.iterations = @ + 1,
                                    !.elapsed = Later(@, d),
                                    !.steps = Append(@, [asked |-> name,
                                                         ran |-> Dispatch(name)])]
            /\ UNCHANGED <<session_stores, heap, resp, last, appended, turnlog, pure, toolrun, requests>>

\* the model's output cannot be parsed: with handle_parsing_errors
\* (agent.py:109) the executor runs its stand-in tool and goes on
AgentParseError(d) ==
    /\ turn.pc = "agent"
    /\ should_continue(turn.iterations, turn.elapsed)
    /\ Len(turn.steps) < MaxSteps
    /\ turn' = [turn EXCEPT !.iterations = @ + 1,
                            !.elapsed = Later(@, d),
                            !.steps = Append(@, [asked |-> "", ran |-> "_Exception"])]
    /\ UNCHANGED <<session_stores, heap, resp, last, appended, turnlog, pure, toolrun, requests>>

\* what a tool called name can hand back
KindsOf(name) == IF name \in ToolNames THEN ToolKinds[name] ELSE {"text"}

\* one call of a tool of the palette, as the executor makes it (explored
\* once per behaviour: a tool keeps no state between calls)
ApplyTool(t, a, e) ==
    /\ toolrun = NoRun
    /\ toolrun' = [tool |-> t, args |-> a, env |-> e, out |-> RunTool(t, a, e)]
    /\ UNCHANGED <<session_stores, heap, turn, resp, last, appended, turnlog, pure,
                   requests>>

ToolNext == \E t \in ToolNames : \E a \in ArgsFor(t), e \in EnvFor(t) : ApplyTool(t, a, e)

ToolSpec == Init /\ [][ToolNext]_vars

\* in the exploration of whole requests the model asks for the tool the
\* prompt names for weather (agent.py:67); AgentSpec explores every name
MainTools == {"get_weather_with_auto_translation"}

Room(n) == TotalMessages + n <= MaxMessages

Next ==
    \/ \E k \in Keys : get_session_history(k)
    \/ \E k \in Keys : get_conversation_history(k)
    \/ \E k \in Keys : clear_session_history(k)
    \/ \E k \in Keys, m \in ManualTexts, h \in BOOLEAN :
          Room(1) /\ add_message_to_history(k, m, h)
    \/ \E k \in Keys, la \in Floats :
          Room(2) /\ invoke_agent(k, u1, la, la)
    \/ \E text \in {<<32>>, <<32>> \o u1 \o <<32>>}, sid \in Keys \cup {""}, la \in Floats :
          Room(2) /\ text_to_text_and_audio(text, sid, la, <<21>>)
    \/ \E f \in {extMp3, extM4a}, dur \in {<<>>, <<20>>, <<21>>}, stt \in {Fails, Val(u2)},
          sid \in Keys \cup {""} :
          Room(2) /\ upload_audio(<<97>> \o f, dur, stt, sid, None, None)
    \/ AgentStop
    \/ \E a \in Answers : AgentFinish(a)
    \/ AgentModelError
    \/ \E t \in MainTools : \E kind \in KindsOf(t), d \in Durations : AgentToolStep(t, kind, d)

Spec == Init /\ [][Next]_vars

(***************************************************************************)
(* The executor's loop on its own: one session, every name the model can   *)
(* ask for.                                                                *)
(***************************************************************************)
\* the function names the model is explored with: those of the prompt's
\* tool descriptions, and one that no tool has
RequestNames ==
    {"get_weather_with_auto_translation", "get_weather_by_city",
     "get_weather_by_coordinates", "get_agriculture_prices", "get_common_diseases",
     "get_current_season_crop_suggestion", "extract_location",
     "translate_location_to_english", "get_news"}

AgentLoop ==
    \/ AgentStop
    \/ \E a \in Answers : AgentFinish(a)
    \/ AgentModelError
    \/ \E n \in RequestNames : \E kind \in KindsOf(n), d \in Durations : AgentToolStep(n, kind, d)
    \/ \E d \in Durations : AgentParseError(d)

AgentNext ==
    \/ Room(2) /\ invoke_agent("s1", u1, None, None)
    \/ clear_session_history("s1")
    \/ AgentLoop

AgentSpec == Init /\ [][AgentNext]_vars

\* the executor runs synchronously inside the request: a started turn keeps
\* taking steps as long as the model and the tools return
FairAgentSpec == AgentSpec /\ WF_vars(AgentLoop)

(***************************************************************************)
(* Manual appends to one session, past max_chat_history.                   *)
(***************************************************************************)
AppendNext ==
    \E m \in ManualTexts, h \in IF TotalMessages < VaryLen THEN BOOLEAN ELSE {TRUE} :
        TotalMessages < MaxAppends /\ add_message_to_history("s1", m, h)

AppendSpec == Init /\ [][AppendNext]_vars

(***************************************************************************)
(* Requests that overlap in time.  Both endpoints are coroutines (`async   *)
(* def`, text_to_text_and_audio.py:43-44, audio_to_text_and_audio.py:       *)
(* 38-39) run by the server's one event loop, and they call invoke_agent   *)
(* as a plain function (text_to_text_and_audio.py:66,                      *)
(* audio_to_text_and_audio.py:85).                                         *)
(***************************************************************************)
\* a handler that awaits the agent hands the event loop to the other requests
Awaits_agent(pc) == pc = "agent"

\* the handlers hold no await expression: once entered, a handler keeps
\* the event loop until it returns
Awaits(pc) == FALSE

\* no other handler is being run by the event loop
LoopFree(r) ==
    \A q \in RequestIds \ {r} : requests[q].pc = "agent" => Awaits(requests[q].pc)

InFlight == {q \in RequestIds : requests[q].pc \in {"waiting", "agent"}}

\* the server accepts request r for session sid: its handler is scheduled
Arrive(r, sid, text) ==
    /\ requests[r].pc = "none"
    /\ requests' = [requests EXCEPT ![r] =
                       [NoRequest EXCEPT !.pc = "waiting", !.session_id = sid,
                                         !.input = enhanced_input(Strip(text), None, None),
                                         !.overlapped = InFlight # {}]]
    /\ UNCHANGED <<session_stores, heap, turn, resp, last, appended, turnlog, pure, toolrun>>

\* the event loop enters the handler of r, which runs up to the executor:
\* RunnableWithMessageHistory fetches the session and reads its messages
Enter(r) ==
    /\ requests[r].pc = "waiting"
    /\ LoopFree(r)
    /\ session_stores' = StoresAfterGet(requests[r].session_id)
    /\ heap' = HeapAfterGet(requests[r].session_id)
    /\ requests' = [requests EXCEPT ![r].pc = "agent",
                                    ![r].hist = RefAfterGet(requests[r].session_id),
                                    ![r].chat_history =
                                        HeapAfterGet(requests[r].session_id)
                                            [RefAfterGet(requests[r].session_id)]]
    /\ UNCHANGED <<turn, resp, last, appended, turnlog, pure, toolrun>>

\* one iteration of the executor in the handler of r
Work(r) ==
    /\ requests[r].pc = "agent"
    /\ should_continue(requests[r].iterations, 0)
    /\ requests' = [requests EXCEPT ![r].iterations = @ + 1]
    /\ UNCHANGED <<session_stores, heap, turn, resp, last, appended, turnlog, pure, toolrun>>

\* the appends made so far by the requests
Appends == Cardinality({q \in RequestIds : requests[q].answered})

\* the executor of r returns: the turn's two messages are appended to the
\* history object fetched on entry, and the handler runs to its end
Answer(r, answer) ==
    /\ requests[r].pc = "agent"
    /\ heap' = [heap EXCEPT ![requests[r].hist] =
                   add_messages(@, <<HumanMessage(requests[r].input), AIMessage(answer)>>)]
    /\ requests' = [requests EXCEPT ![r].pc = "done", ![r].answered = TRUE,
                                    ![r].output = answer, ![r].seq = Appends + 1]
    /\ UNCHANGED <<session_stores, turn, resp, last, appended, turnlog, pure, toolrun>>

\* the executor of r raises: nothing is appended, the handler answers 500
Fail(r) ==
    /\ requests[r].pc = "agent"
    /\ should_continue(requests[r].iterations, 0)
    /\ requests' = [requests EXCEPT ![r].pc = "done"]
    /\ UNCHANGED <<session_stores, heap, turn, resp, last, appended, turnlog, pure, toolrun>>

LoopNext ==
    \/ \E r \in RequestIds, sid \in Keys, text \in {u1, u2} : Arrive(r, sid, text)
    \/ \E r \in RequestIds : Enter(r)
    \/ \E r \in RequestIds : Work(r)
    \/ \E r \in RequestIds :
          \E a \in IF should_continue(requests[r].iterations, 0) THEN Answers
                   ELSE {StopMessage} : Answer(r, a)
    \/ \E r \in RequestIds : Fail(r)

LoopSpec == Init /\ [][LoopNext]_vars

(***************************************************************************)
(* The language functions of utils.py, each applied once to inputs and     *)
(* collaborator answers drawn from the sets below.                         *)
(***************************************************************************)
nmTrailingDot == <<83, 117, 46>>
nmPadded == <<32, 83, 117>>
nmInnerDot == <<83, 46, 117>>
LocationNames == {<<>>, nmSurat, nmTrailingDot, nmPadded, nmInnerDot, <<46>>, <<32>>, nmGujarati}

UtilArgs(text) == [text |-> text, lat |-> None, lon |-> None]

\* one call of translate_location_name_to_english (utils.py:186-211)
ApplyTranslateLocation(location_name, e) ==
    /\ toolrun = NoRun
    /\ toolrun' = [tool |-> "translate_location_name_to_english",
                   args |-> UtilArgs(location_name), env |-> e,
                   out |-> translate_location_name_to_english(location_name, e)]
    /\ UNCHANGED <<session_stores, heap, turn, resp, last, appended, turnlog, pure,
                   requests>>

\* language codes: Kannada, Konkani, Hindi
knIN == <<107, 110>> \o txtDashIN
knnIN == <<107, 110, 110>> \o txtDashIN
hiIN == <<104, 105>> \o txtDashIN
UserLangs == {enIN, guIN, knIN, txtEn}
AcceptLists == {<<>>, <<guIN, enIN>>, <<enIN, guIN, enIN>>, <<knnIN, knIN>>, <<hiIN, knnIN>>,
                <<hiIN>>}

\* the selection of text_to_text_and_audio.py:89-99 for a detected language
\* and the request's `langs`
ApplyTargetLanguage(user_lang, langs) ==
    /\ toolrun = NoRun
    /\ toolrun' = [tool |-> "target_language",
                   args |-> [user_lang |-> user_lang, langs |-> langs],
                   env |-> DefaultEnv,
                   out |-> TargetLanguage(user_lang, langs)]
    /\ UNCHANGED <<session_stores, heap, turn, resp, last, appended, turnlog, pure,
                   requests>>

\* the answers of the language collaborators to one request
BlockAnswers ==
    [du : {Fails, Val(guIN), Val(enIN)}, da : {Fails, Val(enIN), Val(guIN)},
     tr : {Fails, Val(<<120>>)}]

\* the language block of a text request (text_to_text_and_audio.py:76-125)
ApplyTextLanguageBlock(answer_text, langs, c) ==
    /\ toolrun = NoRun
    /\ toolrun' = [tool |-> "text_to_text_and_audio",
                   args |-> [text |-> answer_text, langs |-> langs],
                   env |-> c,
                   out |-> TextLanguageBlock(answer_text, langs, c)]
    /\ UNCHANGED <<session_stores, heap, turn, resp, last, appended, turnlog, pure,
                   requests>>

\* the language block of an audio request (audio_to_text_and_audio.py:97-112)
ApplyAudioLanguageBlock(answer_text, c) ==
    /\ toolrun = NoRun
    /\ toolrun' = [tool |-> "upload_audio",
                   args |-> [text |-> answer_text, langs |-> <<>>],
                   env |-> c,
                   out |-> AudioLanguageBlock(answer_text, c)]
    /\ UNCHANGED <<session_stores, heap, turn, resp, last, appended, turnlog, pure,
                   requests>>

\* a paragraph of n letters
Para(n) == [i \in 1..n |-> 97]
txtAuto == <<97, 117, 116, 111>>

\* texts around the ceiling of utils.py:155, with and without blank lines
\* and leading or trailing newlines
ChunkTexts ==
    {<<>>, <<32>>, <<97>>, <<97, NL>>, <<NL, 97>>, <<97, NL, NL, 98>>, <<32, 97, 32, NL, 32, 98>>,
     Para(max_chars - 1), Para(max_chars), Para(max_chars + 1),
     Para(max_chars - 2) \o <<NL>>,
     Para(max_chars \div 2 + 1) \o <<NL>> \o Para(max_chars \div 2),
     Para(max_chars \div 2 + 1) \o <<NL, NL>> \o Para(max_chars \div 2),
     Para(max_chars + 1) \o <<NL, 98>>,
     <<98, NL>> \o Para(max_chars + 1)}

\* one call of translate_text (utils.py:125-184)
ApplyTranslateText(text, target_language_code, source_language_code, e) ==
    /\ toolrun = NoRun
    /\ toolrun' = [tool |-> "translate_text",
                   args |-> [text |-> text, target |-> target_language_code,
                             source |-> source_language_code],
                   env |-> e,
                   out |-> translate_text(text, target_language_code,
                                          source_language_code, e)]
    /\ UNCHANGED <<session_stores, heap, turn, resp, last, appended, turnlog, pure,
                   requests>>

UtilNext ==
    \/ \E text \in ChunkTexts, source \in {enIN, txtEn, txtAuto, guIN},
          tr \in {Fails, Val(<<120>>), Each} :
          ApplyTranslateText(text, guIN, source, [DefaultEnv EXCEPT !.translate = tr])
    \/ \E a \in Answers, langs \in LangLists, c \in BlockAnswers :
          ApplyTextLanguageBlock(a, langs, c)
    \/ \E a \in Answers, c \in BlockAnswers : ApplyAudioLanguageBlock(a, c)
    \/ \E n \in LocationNames, d \in DetectAnswers \cup {Val(txtEn)}, tr \in TranslateAnswers :
          ApplyTranslateLocation(n, [DefaultEnv EXCEPT !.detect = d, !.translate = tr])
    \/ \E user_lang \in UserLangs, langs \in AcceptLists :
          ApplyTargetLanguage(user_lang, langs)

UtilSpec == Init /\ [][UtilNext]_vars

(***************************************************************************)
(* Properties.                                                             *)
(***************************************************************************)
History(k) == heap[session_stores[k]]

\* the messages of the turns of log, each as human(Human(entry)), ai(answer)
PairsWith(log, Human(_)) ==
    [i \in 1..(2 * Len(log)) |->
        IF i % 2 = 1 THEN HumanMessage(Human(log[(i + 1) \div 2]))
        ELSE AIMessage(log[i \div 2].answer)]

Utterance(entry) == entry.user_text

\* the text handed to the executor: the utterance, followed by
\* " (lat: <lat>, lon: <lon>)" when both coordinates came with the turn
InputOf(entry) ==
    IF entry.lat # None /\ entry.lon # None
    THEN entry.user_text \o <<32, 40, 108, 97, 116, 58, 32>> \o StrFloat(entry.lat)
                         \o <<44, 32, 108, 111, 110, 58, 32>> \o StrFloat(entry.lon) \o <<41>>
    ELSE entry.user_text

\* C1 as stated: in a session that only turns have written to since it was
\* empty, after N completed turns the history is the 2N messages human,
\* agent, human, agent, ..., the k-th pair being the k-th turn's utterance
\* and that turn's answer.
C1_UtterancePairs ==
    \A k \in DOMAIN session_stores :
        pure[k] => /\ Len(History(k)) = 2 * Len(turnlog[k])
                   /\ History(k) = PairsWith(turnlog[k], Utterance)

\* C1, amended: in a session that only turns have written to since it was
\* empty, after N completed turns the history is the 2N messages human,
\* agent, human, agent, ..., the k-th pair being the k-th turn's input text
\* (the utterance, with the coordinate suffix when both coordinates were
\* given) and that turn's answer.
C1_TurnPairs ==
    \A k \in DOMAIN session_stores :
        pure[k] => /\ Len(History(k)) = 2 * Len(turnlog[k])
                   /\ \A i \in 1..Len(History(k)) :
                         History(k)[i].type = IF i % 2 = 1 THEN "human" ELSE "ai"
                   /\ History(k) = PairsWith(turnlog[k], InputOf)

\* two completed turns with different inputs in one session, one with coordinates
C1_Witness ==
    \E k \in DOMAIN session_stores :
        /\ pure[k]
        /\ Len(turnlog[k]) = 2
        /\ turnlog[k][1].user_text # turnlog[k][2].user_text
        /\ turnlog[k][1].lat # None
        /\ turn.pc = "idle"

\* C2: for a key the store has never seen, get_conversation_history returns
\* the empty list, and a turn on that key is carried out on a new, empty
\* session: the executor runs with an empty chat_history, and when it
\* returns the session holds exactly that turn's two messages.
C2_UnknownKey ==
    /\ (last.op = "get_conversation_history" /\ ~last.known) => last.result = <<>>
    /\ (turn.pc = "agent" /\ turn.fresh) =>
          /\ turn.session_id \in DOMAIN session_stores
          /\ turn.chat_history = <<>>
    /\ (last.op = "invoke_agent" /\ ~last.known /\ last.ret.kind = "ok") =>
          History(last.key) = <<HumanMessage(last.input), AIMessage(last.ret.output)>>

\* a turn on a new key has returned while another session holds messages
C2_Witness ==
    /\ last.op = "invoke_agent" /\ ~last.known /\ last.ret.kind = "ok"
    /\ \E k \in DOMAIN session_stores : k # last.key /\ History(k) # <<>>

\* C3: a call of get_session_history for a key the store knows returns the
\* object the store already holds for the key and leaves the store and
\* every message list as they were.
C3_Idempotent ==
    [][\A k \in DOMAIN session_stores :
          (last'.op = "get_session_history" /\ last'.key = k) =>
             /\ session_stores' = session_stores
             /\ heap' = heap
             /\ last'.ref = session_stores[k]
             /\ last'.result = History(k)]_vars

\* get_session_history has handed back a known session that holds messages
C3_Witness ==
    last.op = "get_session_history" /\ last.known /\ last.result # <<>>

\* C4: the messages of a session are exactly the messages appended to it
\* since it was created or cleared, in the order of the appends.
C4_InsertionOrder ==
    \A k \in DOMAIN session_stores : History(k) = appended[k]

\* more than max_chat_history appends, the last two of them identical
C4_Witness ==
    /\ "s1" \in DOMAIN session_stores
    /\ Len(History("s1")) > max_chat_history
    /\ History("s1")[Len(History("s1"))] = History("s1")[Len(History("s1")) - 1]

\* C5: whatever the collaborators do, a tool of the palette does not raise,
\* and when a collaborator it called has failed it hands back a text.
C5_ToolsNeverRaise ==
    toolrun.tool # "" =>
        /\ toolrun.out.kind # "raise"
        /\ Failed(toolrun.out) => toolrun.out.kind = "text"

\* a tool has been run with a collaborator failing
C5_Witness ==
    /\ toolrun.tool = "get_weather_by_city"
    /\ Failed(toolrun.out)
    /\ toolrun.out.kind = "text"

\* C6: when the model call of the decision step fails, invoke_agent raises,
\* and a request handler that called it answers with status 500 and detail
\* "Agent error: ...", without answer text and without audio.
C6_ModelFailureSurfaces ==
    (last.op = "invoke_agent" /\ last.ret.error = "model") =>
        /\ last.ret.kind = "raise"
        /\ last.origin # "direct" =>
              /\ resp.status = 500
              /\ resp.detail = "Agent error: "
              /\ resp.text = <<>>
              /\ ~resp.audio

\* the model call failed in a turn run for a text request
C6_Witness ==
    /\ last.op = "invoke_agent" /\ last.ret.error = "model"
    /\ last.origin = "text"
    /\ resp.status = 500

\* the executor is at a limit of agent.py:110-111 and the turn ends
AtLimit ==
    /\ turn.pc = "agent"
    /\ turn.iterations >= max_iterations \/ turn.elapsed >= max_execution_time
    /\ turn'.pc = "idle"

ToolRuns == {i \in 1..Len(turn.steps) : turn.steps[i].ran \in ToolNames}

\* C8: in every turn at most 3 tools of the palette are run, and every turn
\* that has started comes to its end.
C8_BoundedTurn ==
    /\ [](Cardinality(ToolRuns) <= 3)
    /\ (turn.pc = "agent") ~> (turn.pc = "idle")

\* three tools have been run and the model may still ask for more
C8_Witness ==
    turn.pc = "agent" /\ Cardinality(ToolRuns) = 3

\* C9 as stated: no tool of the palette is run twice in one turn.
C9_NoRepeat ==
    \A i, j \in ToolRuns : i # j => turn.steps[i].ran # turn.steps[j].ran

\* C9, amended: nothing keeps the model from asking for the same tool
\* again; the only limit is the executor's, so a tool of the palette is run
\* at most 3 times in one turn.
C9_RepeatBounded ==
    \A t \in ToolNames :
        Cardinality({i \in 1..Len(turn.steps) : turn.steps[i].ran = t}) <= max_iterations

\* one tool has been run three times in a turn
C9_Witness ==
    /\ Len(turn.steps) = 3
    /\ \A i \in 1..3 : turn.steps[i].ran = "get_agriculture_prices"

\* C10 as stated: the location-translation tool is never run as a step of a turn.
C10_NoTranslationStep ==
    \A i \in 1..Len(turn.steps) : turn.steps[i].ran # "translate_location_to_english"

\* C10, amended: the location-translation tool is a tool of the palette
\* like the others: whenever the model asks for it the executor runs it as
\* a step of the turn; only a name outside the palette is not run.
C10_TranslationDispatched ==
    \A i \in 1..Len(turn.steps) :
        /\ turn.steps[i].asked = "translate_location_to_english" =>
              turn.steps[i].ran = "translate_location_to_english"
        /\ turn.steps[i].asked = "get_news" => turn.steps[i].ran = "invalid_tool"

\* the translation tool has been run as a step, after another tool
C10_Witness ==
    /\ Len(turn.steps) >= 2
    /\ turn.steps[1].ran = "get_weather_with_auto_translation"
    /\ turn.steps[2].ran = "translate_location_to_english"

\* s has t as a substring
Contains(s, t) == \E i \in 0..(Len(s) - Len(t)) : SubSeq(s, i + 1, i + Len(t)) = t

\* the latest completed turn of session k
LastTurn(k) == turnlog[k][Len(turnlog[k])]

\* a turn of a request has just returned an answer
TurnReturned == last.op = "invoke_agent" /\ last.ret.kind = "ok"

\* " (lat: <lat>, lon: <lon>)" when both coordinates came with the turn
CoordSuffix(lat, lon) ==
    IF lat = None \/ lon = None THEN <<>>
    ELSE <<32, 40, 108, 97, 116, 58, 32>> \o StrFloat(lat)
         \o <<44, 32, 108, 111, 110, 58, 32>> \o StrFloat(lon) \o <<41>>

\* C11 as stated: after a turn with latitude and longitude supplied no
\* message of the session contains the coordinates, and the human message
\* appended for the turn is the user's utterance.
C11_CoordinatesNotStored ==
    TurnReturned =>
        LET H == History(last.key)
            e == LastTurn(last.key)
        IN /\ H[Len(H) - 1] = HumanMessage(e.user_text)
           /\ (e.lat # None /\ e.lon # None) =>
                 \A i \in 1..Len(H) : /\ ~Contains(H[i].content, StrFloat(e.lat))
                                      /\ ~Contains(H[i].content, StrFloat(e.lon))

\* C11, amended: coordinates supplied with a request are stored in the
\* session as part of the turn's human message: after a turn with latitude
\* and longitude both supplied, the human message appended for the turn is
\* the utterance followed by " (lat: <lat>, lon: <lon>)"; when either is
\* missing, it is the utterance alone and holds neither coordinate.
C11_CoordinatesInHumanMessage ==
    TurnReturned =>
        LET H == History(last.key)
            e == LastTurn(last.key)
        IN /\ H[Len(H) - 1] = HumanMessage(e.user_text \o CoordSuffix(e.lat, e.lon))
           /\ (e.lat # None /\ e.lon # None) =>
                 /\ Contains(H[Len(H) - 1].content, StrFloat(e.lat))
                 /\ Contains(H[Len(H) - 1].content, StrFloat(e.lon))
           /\ (e.lat = None \/ e.lon = None) =>
                 /\ H[Len(H) - 1].content = e.user_text
                 /\ ~Contains(H[Len(H) - 1].content, StrFloat(<<21>>))

\* a text request with both coordinates has returned, after a turn of the
\* same session that had only one of them
C11_Witness ==
    /\ TurnReturned
    /\ last.origin = "text"
    /\ Len(turnlog[last.key]) = 2
    /\ turnlog[last.key][1].lat = None /\ turnlog[last.key][1].lon # None
    /\ LastTurn(last.key).lat # None /\ LastTurn(last.key).lon # None

\* the two messages request r appended
PairOf(r) == <<HumanMessage(requests[r].input), AIMessage(requests[r].output)>>

CallsTo(p) == {i \in 1..Len(toolrun.out.calls) : toolrun.out.calls[i].p = p}

\* the price tool was run on a text in which no location is found: the text
\* is empty, or the model's reply to the extraction prompt is 'None' or blank
NoLocationInText ==
    /\ toolrun.tool = "get_agriculture_prices"
    /\ \/ toolrun.args.text = <<>>
       \/ /\ toolrun.env.llm.ok
          /\ Lower(Strip(toolrun.env.llm.val)) \in {<<>>, <<110, 111, 110, 101>>}

BothCoordinates == toolrun.args.lat # None /\ toolrun.args.lon # None

\* C13: get_agriculture_prices with no location in its text and with lat or
\* lon missing returns exactly "Unable to detect your location from input or
\* coordinates.", without raising and without asking the price provider.
C13_NoLocationNoCoordinates ==
    (NoLocationInText /\ ~BothCoordinates) =>
        /\ toolrun.out.kind = "text"
        /\ toolrun.out.msg = "Unable to detect your location from input or coordinates."
        /\ CallsTo("prices") = {}
        /\ CallsTo("district") = {}

\* the tool was given a text without a location and a latitude only
C13_Witness ==
    /\ NoLocationInText /\ toolrun.args.text # <<>>
    /\ toolrun.args.lat # None /\ toolrun.args.lon = None
    /\ toolrun.out.msg = "Unable to detect your location from input or coordinates."

\* the extraction call of the price tool raised
ExtractionErrored ==
    /\ toolrun.tool = "get_agriculture_prices"
    /\ toolrun.args.text # <<>>
    /\ ~toolrun.env.llm.ok

\* the district is looked up from the coordinates the tool was given
DistrictFromCoordinates ==
    \E i \in CallsTo("district") :
        toolrun.out.calls[i].arg = toolrun.args.lat \o toolrun.args.lon

\* C14 as stated: whenever extraction does not yield a location (it finds
\* none, or the extraction call errors) and both lat and lon are supplied,
\* the district is reverse-resolved from the coordinates and, when one is
\* found, the price provider is asked for it.
C14_FallbackOnAnyFailure ==
    ((NoLocationInText \/ ExtractionErrored) /\ BothCoordinates) =>
        /\ DistrictFromCoordinates
        /\ (toolrun.env.district.ok /\ ~is_non_english_text(toolrun.env.district.val)) =>
              \E i \in CallsTo("prices") :
                  toolrun.out.calls[i].arg = toolrun.env.district.val

\* C14, amended: the fallback is taken when extraction returns no location
\* (or the text is empty), not when the extraction call errors.  With no
\* location found and both lat and lon supplied, the district is
\* reverse-resolved from the coordinates; a district found is what the
\* price provider is asked for (after translation to English when it has
\* non-English characters), and with none found the tool returns the
\* "Unable to detect ..." text.  When the extraction call errors, the tool
\* returns "Error fetching agriculture prices: ..." and consults neither the
\* coordinates nor the price provider.
C14_FallbackWhenNoneFound ==
    /\ (NoLocationInText /\ BothCoordinates) =>
          /\ DistrictFromCoordinates
          /\ (toolrun.env.district.ok /\ ~is_non_english_text(toolrun.env.district.val)) =>
                \E i \in CallsTo("prices") :
                    toolrun.out.calls[i].arg = toolrun.env.district.val
          /\ (toolrun.env.district.ok /\ is_non_english_text(toolrun.env.district.val)) =>
                /\ \E i \in CallsTo("detect") :
                      toolrun.out.calls[i].arg = toolrun.env.district.val
                /\ \A i \in CallsTo("prices") : \E j \in CallsTo("detect") : j < i
          /\ ~toolrun.env.district.ok =>
                /\ toolrun.out.msg = "Unable to detect your location from input or coordinates."
                /\ CallsTo("prices") = {}
    /\ ExtractionErrored =>
          /\ toolrun.out.kind = "text"
          /\ toolrun.out.msg = "Error fetching agriculture prices: "
          /\ CallsTo("district") = {}
          /\ CallsTo("prices") = {}

\* extraction found no location in a non-empty text, both coordinates were
\* given, and the provider was asked for the district of the coordinates
C14_Witness ==
    /\ NoLocationInText /\ toolrun.args.text # <<>> /\ BothCoordinates
    /\ DistrictFromCoordinates
    /\ \E i \in CallsTo("prices") : toolrun.out.calls[i].arg = toolrun.env.district.val

\* the lookups by name a tool run made: weather by city, prices by district
Lookups == CallsTo("weather_city") \cup CallsTo("prices")

\* the location name the tool run settled on before any translation
ResolvedName ==
    IF toolrun.tool = "get_agriculture_prices"
    THEN IF CallsTo("district") # {} THEN toolrun.env.district.val
         ELSE Strip(toolrun.env.llm.val)
    ELSE toolrun.args.text

\* before call i the run had the language of name detected
DetectedBefore(i, name) ==
    \E j \in CallsTo("detect") : j < i /\ toolrun.out.calls[j].arg = name

\* before call i the run had name translated by the provider
TranslatedBefore(i, name) ==
    \E j \in CallsTo("translate") : j < i /\ toolrun.out.calls[j].arg = name

\* C15 as stated: whenever a tool of the palette asks the weather provider
\* (by city) or the price provider (by district) for a name, a name with
\* non-English characters has first gone through the tool's own translation.
C15_EveryToolTranslates ==
    \A i \in Lookups :
        is_non_english_text(ResolvedName) => DetectedBefore(i, ResolvedName)

\* C15, amended: get_weather_with_auto_translation and
\* get_agriculture_prices translate for themselves: before either asks its
\* provider for a name with non-English characters, it has had the name's
\* language detected and, unless the detected language is English, the
\* name translated, and the provider is asked for the translated name; a
\* name without non-English characters is passed on as it is, with no
\* detection.  get_weather_by_city ("English names only") passes the city it
\* is given to the weather provider unchanged and never translates.
C15_TranslatesExceptByCity ==
    /\ toolrun.tool \in {"get_weather_with_auto_translation", "get_agriculture_prices"} =>
          \A i \in Lookups :
              IF is_non_english_text(ResolvedName)
              THEN /\ DetectedBefore(i, ResolvedName)
                   /\ IF format_language_code(toolrun.env.detect.val) = enIN
                      THEN /\ CallsTo("translate") = {}
                           /\ toolrun.out.calls[i].arg = RStripDot(Strip(ResolvedName))
                      ELSE /\ TranslatedBefore(i, ResolvedName)
                           /\ toolrun.out.calls[i].arg =
                                 RStripDot(Strip(toolrun.env.translate.val))
              ELSE /\ CallsTo("detect") = {}
                   /\ toolrun.out.calls[i].arg = ResolvedName
    /\ toolrun.tool = "get_weather_by_city" =>
          /\ Len(toolrun.out.calls) = 1
          /\ toolrun.out.calls[1].p = "weather_city"
          /\ toolrun.out.calls[1].arg = toolrun.args.text

\* the price tool found a name with non-English characters in its text, had
\* it translated and asked the provider for the translation
C15_Witness ==
    /\ toolrun.tool = "get_agriculture_prices"
    /\ is_non_english_text(ResolvedName)
    /\ CallsTo("district") = {}
    /\ \E i \in CallsTo("prices") :
          /\ TranslatedBefore(i, ResolvedName)
          /\ ~is_non_english_text(toolrun.out.calls[i].arg)

\* translate_location_name_to_english was applied to a non-empty name whose
\* detected language is English
EnglishLocation ==
    /\ toolrun.tool = "translate_location_name_to_english"
    /\ toolrun.args.text # <<>>
    /\ toolrun.env.detect.ok
    /\ toolrun.env.detect.val \in {txtEn, enIN}

\* C16 as stated: for a non-empty name whose detected language is English,
\* translate_location_name_to_english returns the name unchanged, character
\* for character, and does not call the translation provider.
C16_EnglishUnchanged ==
    EnglishLocation =>
        /\ toolrun.out.ok
        /\ toolrun.out.val = toolrun.args.text
        /\ CallsTo("translate") = {}

\* C16, amended: for a non-empty name whose detected language is English,
\* translate_location_name_to_english does not call the translation
\* provider and returns the name sanitized: without leading and trailing
\* whitespace and without trailing dots (so unchanged exactly when it has
\* none of these).
C16_EnglishSanitized ==
    EnglishLocation =>
        /\ toolrun.out.ok /\ ~toolrun.out.none
        /\ CallsTo("translate") = {}
        /\ toolrun.out.val = RStripDot(Strip(toolrun.args.text))
        /\ (toolrun.out.val = toolrun.args.text) <=>
              /\ ~IsSpace(toolrun.args.text[1])
              /\ ~IsSpace(toolrun.args.text[Len(toolrun.args.text)])
              /\ toolrun.args.text[Len(toolrun.args.text)] # DOT

\* an English name with a trailing dot came back without it, the language
\* having been detected as "en-IN"
C16_Witness ==
    /\ EnglishLocation
    /\ toolrun.env.detect.val = enIN
    /\ toolrun.args.text = nmTrailingDot
    /\ toolrun.out.val = nmSurat

\* the entries of langs whose language subtag is that of lang
SameSubtag(langs, lang) == {i \in 1..Len(langs) : Subtag(langs[i]) = Subtag(lang)}

\* C17: with a non-empty list of acceptable output languages the target
\* language is the first entry whose language subtag equals the subtag of
\* the detected user language, or the first entry of the list when no
\* entry's subtag equals it; with an empty list it is the detected language.
C17_SubtagSelection ==
    toolrun.tool = "target_language" =>
        LET langs == toolrun.args.langs
            user_lang == toolrun.args.user_lang
            same == SameSubtag(langs, user_lang)
        IN toolrun.out =
              IF langs = <<>> THEN user_lang
              ELSE IF same # {} THEN langs[CHOOSE i \in same : \A j \in same : i <= j]
              ELSE langs[1]

\* the translation provider as the language block of a request sees it
BlockEnv == [DefaultEnv EXCEPT !.translate = toolrun.env.tr]

\* a detection or translation call made by the language block of a text
\* request failed
TextBlockFailure ==
    /\ toolrun.tool = "text_to_text_and_audio"
    /\ \/ ~toolrun.env.du.ok
       \/ ~toolrun.env.da.ok
       \/ LET target == TargetLanguage(toolrun.env.du.val, toolrun.args.langs)
          IN /\ toolrun.env.da.val # target
             /\ ~translate_text(toolrun.args.text, target, toolrun.env.da.val, BlockEnv).ok

\* a detection or translation call made by the language block of an audio
\* request failed
AudioBlockFailure ==
    /\ toolrun.tool = "upload_audio"
    /\ \/ ~toolrun.env.du.ok
       \/ /\ toolrun.env.du.val # enIN
          /\ ~translate_text(toolrun.args.text, toolrun.env.du.val, enIN, BlockEnv).ok

\* C18: when detecting the user language, detecting the answer language or
\* translating the answer fails, the request goes on and the language it
\* reports and synthesizes speech in is "en-IN".
C18_FailureFallsBackToDefault ==
    (TextBlockFailure \/ AudioBlockFailure) => toolrun.out.lang = enIN

\* C19: every chunk translate_text passes to the translation provider has at
\* most 1000 characters and is not empty.
C19_ChunksWithinLimit ==
    toolrun.tool = "translate_text" =>
        \A i \in CallsTo("translate") :
            /\ Len(toolrun.out.calls[i].arg) <= max_chars
            /\ toolrun.out.calls[i].arg # <<>>

\* translate_text was applied with a provider that translates every
\* paragraph into one paragraph, to a text in another language
ParagraphWise ==
    /\ toolrun.tool = "translate_text"
    /\ "each" \in DOMAIN toolrun.env.translate
    /\ toolrun.args.source # toolrun.args.target

\* the paragraphs of text that are not blank, in order, each without its
\* leading and trailing whitespace
RECURSIVE NonBlank(_)
NonBlank(paragraphs) ==
    IF paragraphs = <<>> THEN <<>>
    ELSE IF Strip(Head(paragraphs)) = <<>> THEN NonBlank(Tail(paragraphs))
    ELSE <<Strip(Head(paragraphs))>> \o NonBlank(Tail(paragraphs))

\* C20 as stated: with a provider that maps each paragraph to one
\* paragraph, the output of translate_text has the paragraphs of the input,
\* translated, in the same number and order and with the same separators,
\* blank lines and leading or trailing newlines included.
C20_ParagraphsPreserved ==
    ParagraphWise =>
        /\ toolrun.out.ok
        /\ Len(Split(toolrun.out.val, NL)) = Len(Split(toolrun.args.text, NL))
        /\ toolrun.out.val = Translated(toolrun.args.text)

\* C20, amended: with a provider that maps each paragraph to one
\* paragraph, the output of translate_text has the non-blank paragraphs of
\* the input, translated, in the same number and order.  Blank lines and
\* leading or trailing newlines are kept only inside a chunk, since every
\* chunk is stripped: a text that fits into one chunk (len(text) + 1 <=
\* 1000) comes back as the translation of the text without its leading and
\* trailing whitespace.
C20_NonBlankParagraphsPreserved ==
    ParagraphWise =>
        /\ toolrun.out.ok
        /\ NonBlank(Split(toolrun.out.val, NL)) =
              NonBlank(Split(Translated(toolrun.args.text), NL))
        /\ Len(toolrun.args.text) + 1 <= max_chars =>
              toolrun.out.val = Strip(Translated(toolrun.args.text))

\* a text of two chunks with a blank line between them came back with its
\* two paragraphs, without the blank line
C20_Witness ==
    /\ ParagraphWise
    /\ Len(toolrun.out.calls) = 2
    /\ Len(Split(toolrun.args.text, NL)) = 3
    /\ Len(Split(toolrun.out.val, NL)) = 2
    /\ Len(NonBlank(Split(toolrun.out.val, NL))) = 2

\* the request that was received last fails validation: a text that is
\* empty after trimming, a file name that ends neither in .mp3 nor in .wav,
\* or an upload of more than 20 seconds
InvalidRequest ==
    \/ /\ last.op = "text_to_text_and_audio"
       /\ \A i \in 1..Len(last.request.text) : IsSpace(last.request.text[i])
    \/ /\ last.op = "upload_audio"
       /\ \/ /\ ~EndsWith(last.request.filename, extMp3)
             /\ ~EndsWith(last.request.filename, extWav)
          \/ /\ last.request.duration # <<>>
             /\ last.request.duration[1] > max_audio_duration_seconds

\* C21: a request that fails validation ends with a 400 error and its
\* reason without invoke_agent being called: no turn is started, no session
\* is created and no history is changed.
C21_RejectedBeforeAgent ==
    [][InvalidRequest' =>
          /\ resp'.status = 400
          /\ resp'.detail \in {"Empty text provided", "Only .mp3 or .wav files are allowed",
                               "Audio duration exceeds 20 seconds. Please upload a shorter clip."}
          /\ turn'.pc = "idle"
          /\ session_stores' = session_stores
          /\ heap' = heap]_vars

\* an upload of 21 seconds with an allowed extension was rejected while a
\* session held messages
C21_Witness ==
    /\ InvalidRequest
    /\ last.op = "upload_audio"
    /\ EndsWith(last.request.filename, extMp3)
    /\ resp.status = 400
    /\ \E k \in DOMAIN session_stores : History(k) # <<>>

\* the message list of key k in the next state
HistoryAfter(k) == heap'[session_stores'[k]]

\* C22: clear_session_history(k) empties the history of k and leaves the
\* store and the history of every other key as they were; for a key the
\* store has never seen it changes nothing and creates no session; and a
\* turn that starts later reads only what was appended to its session
\* since the clear.
C22_ClearResetsOne ==
    [][/\ \A k \in Keys :
             (last'.op = "clear_session_history" /\ last'.key = k) =>
                 /\ session_stores' = session_stores
                 /\ k \in DOMAIN session_stores => HistoryAfter(k) = <<>>
                 /\ k \notin DOMAIN session_stores => heap' = heap
                 /\ \A j \in DOMAIN session_stores \ {k} : HistoryAfter(j) = History(j)
       /\ (turn.pc = "idle" /\ turn'.pc = "agent") =>
             turn'.chat_history = appended[turn'.session_id]]_vars

\* a session that held messages was cleared while another one holds messages
C22_Witness ==
    /\ last.op = "clear_session_history" /\ last.known /\ last.dropped > 0
    /\ History(last.key) = <<>>
    /\ \E j \in DOMAIN session_stores : j # last.key /\ History(j) # <<>>

\* the run was given a city but did not get that city's weather: the name
\* could not be translated, or the lookup by city gave no usable record
CityPathFailed ==
    /\ toolrun.args.text # <<>>
    /\ \/ CallsTo("weather_city") = {}
       \/ toolrun.env.wcity # "good"

\* C23: when get_weather_with_auto_translation is given a city whose path
\* produces no weather data (provider error, city not found, or the name
\* cannot be translated) and both lat and lon are supplied, the weather
\* provider is asked for the coordinates and its answer is the result;
\* "City not found and coordinates not provided." is returned only when no
\* city weather was produced and lat or lon is missing.
C23_FallbackWheneverCityFails ==
    toolrun.tool = "get_weather_with_auto_translation" =>
        /\ (CityPathFailed /\ BothCoordinates) =>
              /\ CallsTo("weather_coords") # {}
              /\ toolrun.env.wcoords = "good" => toolrun.out.msg = "Weather in"
        /\ toolrun.out.msg = "City not found and coordinates not provided." =>
              /\ ~BothCoordinates
              /\ \/ toolrun.args.text = <<>>
                 \/ CityPathFailed

\* the turn in progress ends in this step with invoke_agent raising
TurnFails == turn.pc = "agent" /\ last'.op = "invoke_agent" /\ last'.ret.kind = "raise"

\* C24: when invoke_agent raises, the message list of the turn's session is
\* what it was when the turn started: neither the utterance nor an answer
\* has been appended and no other list has changed; so a session written
\* only by turns still alternates human, agent after the failed turn.
C24_FailedTurnLeavesHistory ==
    [][TurnFails =>
          /\ session_stores' = session_stores
          /\ heap' = heap
          /\ HistoryAfter(turn.session_id) = turn.chat_history
          /\ pure'[turn.session_id] =>
                /\ Len(HistoryAfter(turn.session_id)) % 2 = 0
                /\ \A i \in 1..Len(HistoryAfter(turn.session_id)) :
                      HistoryAfter(turn.session_id)[i].type =
                          IF i % 2 = 1 THEN "human" ELSE "ai"]_vars

\* a turn failed on a session that holds the pair of an earlier turn, after
\* which the session still holds exactly that pair
C24_Witness ==
    /\ last.op = "invoke_agent" /\ last.ret.kind = "raise" /\ last.known
    /\ pure[last.key]
    /\ Len(turnlog[last.key]) = 1
    /\ History(last.key) = <<HumanMessage(InputOf(turnlog[last.key][1])),
                             AIMessage(turnlog[last.key][1].answer)>>
    /\ last.input # InputOf(turnlog[last.key][1])

\* the session key the step acts on: the key of the turn in progress, or
\* the key of the call that the step completes
ActingKey == IF turn.pc = "agent" THEN turn.session_id ELSE last.key

\* C25: a step that acts on session key a (a turn from its start to its
\* end, a manual append, a clear, a read) leaves every other key b in the
\* store with the message list it had; no two keys hold the same
\* ChatMessageHistory object; and the chat_history of a turn on a is the
\* message list of a.
C25_SessionsIsolated ==
    [][/\ \A b \in DOMAIN session_stores :
             b # ActingKey' =>
                /\ b \in DOMAIN session_stores'
                /\ HistoryAfter(b) = History(b)
       /\ \A a, b \in DOMAIN session_stores' :
             a # b => session_stores'[a] # session_stores'[b]
       /\ turn'.pc = "agent" =>
             turn'.chat_history = HistoryAfter(turn'.session_id)]_vars

\* a turn on one session returned while another session holds different
\* messages, which are not among those the turn's session holds
C25_Witness ==
    /\ last.op = "invoke_agent" /\ last.ret.kind = "ok" /\ last.known
    /\ \E b \in DOMAIN session_stores :
          /\ b # last.key
          /\ History(b) # <<>>
          /\ \A i \in 1..Len(History(b)) : \A j \in 1..Len(History(last.key)) :
                History(b)[i] # History(last.key)[j]

====
